---- MODULE Spec2Model ----
(***************************************************************************)
(* Model of the quiz backend (src/api/index.js): the submission ledger,    *)
(* the window state machine, the rank-reveal gate and the ranking queries. *)
(*                                                                         *)
(* Time is counted in units of 30 minutes since the UTC midnight of the    *)
(* day of the paid test (every constant of the code that is a time is a    *)
(* multiple of 30 minutes).  A score is kept in thirds of a mark, so that  *)
(* 2*correct - (2/3)*incorrect is the integer 6*correct - 2*incorrect.     *)
(***************************************************************************)
EXTENDS Integers, Sequences, FiniteSets, TLC

\* ------------------------------------------------------------------ bounds
FirstInstant == 10      \* the clock at start-up (05:00 UTC, 10:30 IST)
MaxClock == 13          \* the last instant the clock reaches (12:00 IST)
MaxDocs == 2            \* documents stored in Result and FreeResult together
MaxInFlight == 2        \* submit requests between their findOne and their create
MaxGraded == 1          \* documents stored when the answer lists are GradeInputs
MaxCalls == 3           \* connectDB calls running at a time
MaxAttempts == 2        \* mongoose.connect attempts

\* --------------------------------------------------------------- constants
IST_OFFSET_MS == 11     \* 5.5 hours
LeaderboardLimit == 50
PhaseLeaderboardLimit == 20
GlobalLimitDefault == 50
AttemptsLimitDefault == 30
FreeLeaderboardLimit == 100

NULL == "null"
NoUser == "nobody"
Idle == [busy |-> FALSE]
\* cached.promise: null
NoPromise == 0
\* a connectDB call that has not begun: the attempt it awaits, what it saw
NotCalled == [pc |-> "idle", on |-> NoPromise, saw |-> "none"]

Users == {"u1", "u2"}
Phases == {"GS", "CSAT"}
\* what a client may send as :testId ("t1" paid, "t2" free, "zz" unknown)
TestIds == {"t1", "t2", "zz"}
\* what a client may send as phase
PhaseInputs == {"GS", "CSAT", "XX"}
\* Authorization headers: a valid token of each user, a forged one, none
Tokens == {"tok_u1", "tok_u2", "forged", NULL}

VARIABLES
    clock,                  \* Date.now()
    isSundayFullTest,       \* the isSundayFullTest field of the paid test
    firebaseInitialized,    \* set once at start-up
    results,                \* the Result collection, in insertion order
    freeResults,            \* the FreeResult collection, in insertion order
    pending,                \* submit handlers suspended before Result.create
    resp,                   \* the response of the request handled last
    cached,                 \* global.mongoose: its conn and promise fields
    promises,               \* what mongoose.connect returned, attempt by attempt
    calls                   \* the connectDB calls and where each one stands

\* the state of the database connection
dbVars == <<cached, promises, calls>>

vars == <<clock, isSundayFullTest, firebaseInitialized, results, freeResults,
          pending, resp, cached, promises, calls>>

\* ------------------------------------------------------------ the catalogue
\* The Test collection (written by the admin service only).
Test(id) ==
    IF id = "t1"
    THEN [_id |-> "t1", date |-> 0, startTime |-> 11, endTime |-> 12,
          totalQuestions |-> 2, testType |-> "paid",
          isSundayFullTest |-> isSundayFullTest]
    ELSE [_id |-> "t2", date |-> 0, startTime |-> 0, endTime |-> 47,
          totalQuestions |-> 1, testType |-> "free",
          isSundayFullTest |-> FALSE]

AllTests == {"t1", "t2"}

\* Test.findById(id) finds a document
TestExists(id) == id \in AllTests

\* The Question collection, sorted by questionNumber.  phase defaults to
\* "GS"; the questions of a two-phase test are split between the phases.
Question ==
    << [_id |-> "q1", testId |-> "t1", questionNumber |-> 1,
        correctOption |-> "option1", phase |-> "GS"],
       [_id |-> "q2", testId |-> "t1", questionNumber |-> 2,
        correctOption |-> "option2",
        phase |-> IF isSundayFullTest THEN "CSAT" ELSE "GS"],
       [_id |-> "q3", testId |-> "t2", questionNumber |-> 1,
        correctOption |-> "option1", phase |-> "GS"] >>

\* --------------------------------------------------------- sequence helpers
RECURSIVE SelectSeqBy(_, _)
\* the subsequence of s at the indices in keep, in order
SelectSeqBy(s, keep) ==
    IF s = <<>> THEN <<>>
    ELSE LET n == Len(s)
             front == SelectSeqBy(SubSeq(s, 1, n - 1), keep)
         IN  IF n \in keep THEN Append(front, s[n]) ELSE front

Range(s) == {s[i] : i \in 1..Len(s)}

\* variant: no truncation
TakeAll(s, n) == s

Take(s, n) == SubSeq(s, 1, IF Len(s) < n THEN Len(s) ELSE n)

RECURSIVE SumOver(_, _)
\* the sum of f[i] over the finite set of indices idx
SumOver(f, idx) ==
    IF idx = {} THEN 0
    ELSE LET i == CHOOSE j \in idx : TRUE
         IN  f[i] + SumOver(f, idx \ {i})

\* ------------------------------------------------------------------ helpers
\* variant: a whole mark taken off per incorrect answer
calculateNetScoreFullMark(correct, incorrect) ==
    (correct * 6) - (incorrect * 3)

\* correct * 2 - incorrect * (2 / 3), in thirds of a mark
calculateNetScore(correct, incorrect) ==
    (correct * 6) - (incorrect * 2)

\* Math.round(score * 100) / 100, in hundredths of a mark (Math.round rounds
\* a half up; a score in thirds is never exactly a half of a hundredth)
Round2(score) == ((200 * score) + 3) \div 6

nowIST == clock + IST_OFFSET_MS

getUTCHours(t) == (t \div 2) % 24
getUTCMinutes(t) == (t % 2) * 30
\* toISOString().split("T")[0]: the calendar day
DateOf(t) == t \div 48

\* variant: the minutes of the cutoff left out
isRankRevealTimeHourOnly ==
    getUTCHours(nowIST) >= 11

isRankRevealTime ==
    LET ist == nowIST
        hours == getUTCHours(ist)
        minutes == getUTCMinutes(ist)
    IN  (hours > 11) \/ (hours = 11 /\ minutes >= 30)

rankRevealTimeIST == "5:00 PM IST"

\* admin.auth().verifyIdToken
verifyIdToken(token) ==
    CASE token = "tok_u1" -> "u1"
      [] token = "tok_u2" -> "u2"
      [] OTHER -> NoUser

Response(route, uid, testId, phase, code, body) ==
    [route |-> route, uid |-> uid, testId |-> testId, phase |-> phase,
     code |-> code, body |-> body]

NoResp == Response("none", NoUser, NULL, NULL, 0, [message |-> "none"])

\* variant: the token is decoded but not verified
userAuthUnverified(route, token, testId, phase) ==
    [ok |-> TRUE, uid |-> verifyIdToken(token)]

\* the middleware: the uid the handler runs with, or the response that ends
\* the request
userAuth(route, token, testId, phase) ==
    IF ~firebaseInitialized
    THEN [ok |-> FALSE, resp |-> Response(route, NoUser, NULL, NULL, 503,
                                  [message |-> "Auth service unavailable"])]
    ELSE IF token = NULL
    THEN [ok |-> FALSE, resp |-> Response(route, NoUser, NULL, NULL, 401,
                                  [message |-> "No token provided"])]
    ELSE IF verifyIdToken(token) = NoUser
    THEN [ok |-> FALSE, resp |-> Response(route, NoUser, NULL, NULL, 401,
                                  [message |-> "Invalid Firebase token"])]
    ELSE [ok |-> TRUE, uid |-> verifyIdToken(token)]

\* ------------------------------------------------------------ ledger queries
\* Result.find(filter): the indices of the matching documents
OnTimeOf(led, uid, testId, phases) ==
    {i \in 1..Len(led) :
        /\ led[i].userId = uid
        /\ led[i].testId = testId
        /\ led[i].phase \in phases
        /\ ~led[i].isLate}

\* variant: the filter without isLate: false
CohortWithLate(led, testId, phase) ==
    {i \in 1..Len(led) : led[i].testId = testId /\ led[i].phase = phase}

Cohort(led, testId, phase) ==
    {i \in 1..Len(led) :
        /\ led[i].testId = testId
        /\ led[i].phase = phase
        /\ ~led[i].isLate}

\* Result.findOne(filter): the first match in natural order (the caller
\* tests matching = {} for a null result)
FindOne(led, matching) ==
    led[CHOOSE i \in matching : \A j \in matching : i <= j]

\* variant: the $or without its tie-break on submittedAt
countBetterScoreOnly(led, testId, phase, score, submittedAt) ==
    Cardinality({i \in Cohort(led, testId, phase) : led[i].score > score})

\* countDocuments({testId, phase, isLate: false,
\*   $or: [{score: {$gt: score}}, {score, submittedAt: {$lt: submittedAt}}]})
countBetter(led, testId, phase, score, submittedAt) ==
    Cardinality({i \in Cohort(led, testId, phase) :
        \/ led[i].score > score
        \/ (led[i].score = score /\ led[i].submittedAt < submittedAt)})

\* countDocuments({testId, phase, isLate: false})
countRanked(led, testId, phase) == Cardinality(Cohort(led, testId, phase))

\* the $match stage of the combined aggregations
CombinedMatch(led, testId) ==
    {i \in 1..Len(led) :
        /\ led[i].testId = testId
        /\ ~led[i].isLate
        /\ led[i].phase \in {"GS", "CSAT"}}

\* the $group stage: the summed score of one user
CombinedTotal(led, testId, uid) ==
    SumOver([i \in 1..Len(led) |-> led[i].score],
            {i \in CombinedMatch(led, testId) : led[i].userId = uid})

\* Result.distinct("userId", ...)
CombinedUsers(led, testId) == {led[i].userId : i \in CombinedMatch(led, testId)}

\* the aggregation counting the users whose summed score is greater
countBetterCombined(led, testId, combinedScore) ==
    Cardinality({u \in CombinedUsers(led, testId) :
        CombinedTotal(led, testId, u) > combinedScore})

\* ------------------------------------------------------------------ grading
QuestionsOf(testId, phase) ==
    SelectSeqBy(Question, {i \in 1..Len(Question) :
        /\ Question[i].testId = testId
        /\ (Test(testId).isSundayFullTest => Question[i].phase = phase)})

\* variant: an unknown id graded as the first question
FindQuestionOrFirst(questions, questionId) ==
    LET hit == {i \in 1..Len(questions) : questions[i]._id = questionId}
    IN  IF hit = {} THEN {i \in {1} : questions # <<>>}
        ELSE {i \in hit : \A j \in hit : i <= j}

\* questions.find(qq => qq._id.toString() === questionId): the indices it
\* can return (the first match), none when there is no match
FindQuestion(questions, questionId) ==
    LET hit == {i \in 1..Len(questions) : questions[i]._id = questionId}
    IN  {i \in hit : \A j \in hit : i <= j}

RECURSIVE Grade(_, _)
\* the answers.map of the submit handler: the four counters and savedAnswers
Grade(answers, questions) ==
    IF answers = <<>>
    THEN [correct |-> 0, incorrect |-> 0, unattempted |-> 0, attempted |-> 0,
          savedAnswers |-> <<>>]
    ELSE LET n == Len(answers)
             g == Grade(SubSeq(answers, 1, n - 1), questions)
             ans == answers[n]
             found == FindQuestion(questions, ans.questionId)
             q == questions[CHOOSE i \in found : TRUE]
             selected == ans.selectedOption
         IN  IF found = {}
             THEN [g EXCEPT !.savedAnswers = Append(@,
                     [questionId |-> ans.questionId, selectedOption |-> NULL])]
             ELSE IF selected = NULL
             THEN [g EXCEPT !.unattempted = @ + 1,
                            !.savedAnswers = Append(@,
                     [questionId |-> ans.questionId, selectedOption |-> NULL])]
             ELSE IF selected = q.correctOption
             THEN [g EXCEPT !.attempted = @ + 1, !.correct = @ + 1,
                            !.savedAnswers = Append(@,
                     [questionId |-> ans.questionId, selectedOption |-> selected])]
             ELSE [g EXCEPT !.attempted = @ + 1, !.incorrect = @ + 1,
                            !.savedAnswers = Append(@,
                     [questionId |-> ans.questionId, selectedOption |-> selected])]

\* ------------------------------------------------- POST /user/submit-test
Answer(questionId, selectedOption) ==
    [questionId |-> questionId, selectedOption |-> selectedOption]

\* req.body.answers: not an array, or an array of answer objects
AnswerInputs ==
    { [isArray |-> FALSE, items |-> <<>>],
      [isArray |-> TRUE, items |-> <<Answer("q1", "option1")>>],
      [isArray |-> TRUE, items |-> <<Answer("q1", "option2"),
                                     Answer("q2", "option2")>>] }

\* variant: the end of the window counted as late
submitIsLateAtEnd(testId) ==
    nowIST >= Test(testId).endTime + IST_OFFSET_MS

\* const isLate = istNow > endIST
submitIsLate(testId) ==
    LET istNow == nowIST
        endIST == Test(testId).endTime + IST_OFFSET_MS
    IN  istNow > endIST

\* variant: the lookup made with isLate: isLate
existingSubmissionSameLateness(uid, testId, phase) ==
    \E i \in 1..Len(results) :
        /\ results[i].userId = uid
        /\ results[i].testId = testId
        /\ results[i].phase = phase
        /\ results[i].isLate = (nowIST > Test(testId).endTime + IST_OFFSET_MS)

\* Result.findOne({userId, testId, phase, isLate: false}) finds a document
existingSubmission(uid, testId, phase) ==
    OnTimeOf(results, uid, testId, {phase}) # {}

\* The handler up to and including Result.findOne: the response that ends
\* the request, or the request on its way to Result.create.
submitCheck(token, testId, phase, answers) ==
    LET auth == userAuth("submit", token, testId, phase)
        Reject(uid, code, body) ==
            [ok |-> FALSE, resp |-> Response("submit", uid, testId, phase, code, body)]
    IN  IF ~auth.ok THEN [ok |-> FALSE, resp |-> auth.resp]
        ELSE IF phase \notin {"GS", "CSAT"}
        THEN Reject(auth.uid, 400, [message |-> "phase must be 'GS' or 'CSAT'"])
        ELSE IF ~answers.isArray
        THEN Reject(auth.uid, 400, [message |-> "answers must be an array of objects"])
        ELSE IF ~TestExists(testId) \/ Test(testId).testType # "paid"
        THEN Reject(auth.uid, 404, [message |-> "Paid test not found"])
        ELSE LET now == clock
                 isLate == submitIsLate(testId)
             IN  IF existingSubmission(auth.uid, testId, phase)
                 THEN Reject(auth.uid, 403,
                        [message |-> "You have already submitted this phase",
                         alreadySubmitted |-> TRUE])
                 ELSE IF QuestionsOf(testId, phase) = <<>>
                 THEN Reject(auth.uid, 404,
                        [message |-> "No questions found for this phase"])
                 ELSE [ok |-> TRUE,
                       req |-> [busy |-> TRUE, uid |-> auth.uid, testId |-> testId,
                                phase |-> phase, answers |-> answers.items,
                                now |-> now, isLate |-> isLate]]

\* The document Result.create stores for a request that passed submitCheck.
submitDoc(req) ==
    LET questions == QuestionsOf(req.testId, req.phase)
        g == Grade(req.answers, questions)
        score == calculateNetScore(g.correct, g.incorrect)
    IN  [userId |-> req.uid, testId |-> req.testId, phase |-> req.phase,
         score |-> score, correct |-> g.correct, incorrect |-> g.incorrect,
         unattempted |-> g.unattempted, attempted |-> g.attempted,
         totalQuestions |-> Len(questions), submittedAt |-> req.now,
         startedAt |-> req.now, isLate |-> req.isLate,
         answers |-> g.savedAnswers, timeTakenSeconds |-> 0]

\* variant: an upsert on (userId, testId, phase, isLate)
ResultUpsert(led, doc) ==
    LET same == {i \in 1..Len(led) :
                    /\ led[i].userId = doc.userId
                    /\ led[i].testId = doc.testId
                    /\ led[i].phase = doc.phase
                    /\ led[i].isLate = doc.isLate}
    IN  IF same = {} THEN Append(led, doc)
        ELSE [i \in 1..Len(led) |-> IF i \in same THEN doc ELSE led[i]]

\* Result.create(doc): a new document at the end of the collection
ResultCreate(led, doc) == Append(led, doc)

\* The handler after Result.create: led is the ledger the count queries read.
submitRespond(led, req, doc) ==
    LET rankRevealNow == isRankRevealTime
        responseBase ==
            [phase |-> req.phase, score |-> Round2(doc.score),
             correct |-> doc.correct, incorrect |-> doc.incorrect,
             unattempted |-> doc.unattempted,
             totalQuestions |-> doc.totalQuestions, isLate |-> req.isLate,
             ranked |-> ~req.isLate, rankRevealTime |-> rankRevealTimeIST,
             rankRevealNow |-> rankRevealNow]
        betterCount == countBetter(led, req.testId, req.phase, doc.score, req.now)
        totalRanked == countRanked(led, req.testId, req.phase)
        ranked ==
            responseBase @@
            [rank |-> betterCount + 1, totalRankedParticipants |-> totalRanked,
             message |-> "Test submitted! Here is your rank."]
        gs == OnTimeOf(led, req.uid, req.testId, {"GS"})
        csat == OnTimeOf(led, req.uid, req.testId, {"CSAT"})
        combinedScore == FindOne(led, gs).score + FindOne(led, csat).score
        combined ==
            [score |-> Round2(combinedScore),
             rank |-> countBetterCombined(led, req.testId, combinedScore) + 1,
             totalParticipants |-> Cardinality(CombinedUsers(led, req.testId))]
        body ==
            IF req.isLate
            THEN responseBase @@
                 [message |-> "Test window closed. Attempt saved for practice only (no ranking)."]
            ELSE IF ~rankRevealNow
            THEN responseBase @@
                 [message |-> "Test submitted successfully! Your rank will be available later today."]
            ELSE IF Test(req.testId).isSundayFullTest /\ gs # {} /\ csat # {}
            THEN ranked @@ [combined |-> combined]
            ELSE ranked
    IN  Response("submit", req.uid, req.testId, req.phase, 200, body)

\* documents stored and about to be stored
Stored == Len(results) + Len(freeResults)
InFlight == Cardinality({s \in DOMAIN pending : pending[s].busy})

\* One request handled from start to end with no other request in between.
Submit ==
    \E token \in Tokens, testId \in TestIds, phase \in PhaseInputs,
       answers \in AnswerInputs :
        LET chk == submitCheck(token, testId, phase, answers)
        IN  /\ resp = NoResp
            /\ InFlight = 0
            /\ IF chk.ok
               THEN LET doc == submitDoc(chk.req)
                        led == ResultCreate(results, doc)
                    IN  /\ Stored < MaxDocs
                        /\ results' = led
                        /\ resp' = submitRespond(led, chk.req, doc)
               ELSE /\ results' = results
                    /\ resp' = chk.resp
            /\ UNCHANGED <<dbVars, clock, isSundayFullTest, firebaseInitialized,
                           freeResults, pending>>

\* The same handler as two steps, split at the await of Result.findOne:
\* other requests run between the existence check and the insert.
SubmitCheck ==
    \E s \in DOMAIN pending, token \in Tokens, testId \in TestIds,
       phase \in PhaseInputs, answers \in AnswerInputs :
        LET chk == submitCheck(token, testId, phase, answers)
        IN  /\ resp = NoResp
            /\ ~pending[s].busy
            /\ \A r \in DOMAIN pending : r < s => pending[r].busy
            /\ IF chk.ok
               THEN /\ Stored + InFlight < MaxDocs
                    /\ pending' = [pending EXCEPT ![s] = chk.req]
                    /\ resp' = NoResp
               ELSE /\ pending' = pending
                    /\ resp' = chk.resp
            /\ UNCHANGED <<dbVars, clock, isSundayFullTest, firebaseInitialized,
                           results, freeResults>>

SubmitCreate ==
    \E s \in DOMAIN pending :
        /\ resp = NoResp
        /\ pending[s].busy
        /\ LET doc == submitDoc(pending[s])
               led == ResultCreate(results, doc)
           IN  /\ results' = led
               /\ resp' = submitRespond(led, pending[s], doc)
        /\ pending' = [pending EXCEPT ![s] = Idle]
        /\ UNCHANGED <<dbVars, clock, isSundayFullTest, firebaseInitialized, freeResults>>

\* ---------------------------------------------------- GET /user/today-test
\* variant: no projection
selectAllFields(q) == q

\* .select("-correctOption")
selectWithoutCorrectOption(q) ==
    [f \in (DOMAIN q) \ {"correctOption"} |-> q[f]]

\* userResults.map(r => r.phase)
PhasesOf(led, userResults) ==
    LET docs == SelectSeqBy(led, userResults)
    IN  [i \in 1..Len(docs) |-> docs[i].phase]

\* variant: the end of the window counted as archived
windowStatusEndExclusive(test) ==
    IF nowIST < test.startTime + IST_OFFSET_MS THEN "not_started"
    ELSE IF nowIST >= test.endTime + IST_OFFSET_MS THEN "archived"
    ELSE "active"

\* the two comparisons of the handler: istNow < startIST, istNow > endIST
windowStatus(test) ==
    LET istNow == nowIST
        startIST == test.startTime + IST_OFFSET_MS
        endIST == test.endTime + IST_OFFSET_MS
    IN  IF istNow < startIST THEN "not_started"
        ELSE IF istNow > endIST THEN "archived"
        ELSE "active"

todayTest(token) ==
    LET auth == userAuth("today-test", token, NULL, NULL)
        istNow == nowIST
        todayIST == DateOf(istNow)
        found == {id \in AllTests :
                    Test(id).date = todayIST /\ Test(id).testType = "paid"}
        test == Test(CHOOSE id \in found : TRUE)
        startIST == test.startTime + IST_OFFSET_MS
        endIST == test.endTime + IST_OFFSET_MS
        existingPhases == IF test.isSundayFullTest THEN {"GS", "CSAT"} ELSE {"GS"}
        userResults == OnTimeOf(results, auth.uid, test._id, existingPhases)
        submittedPhases == PhasesOf(results, userResults)
        hasSubmitted == Len(submittedPhases) > 0
        questions ==
            LET docs == SelectSeqBy(Question,
                           {i \in 1..Len(Question) : Question[i].testId = test._id})
            IN  [k \in 1..Len(docs) |-> selectWithoutCorrectOption(docs[k])]
        InPhase(ph) ==
            SelectSeqBy(questions,
                        {i \in 1..Len(questions) : questions[i].phase = ph})
        common == [testId |-> test._id, totalQuestions |-> test.totalQuestions,
                   startTimeIST |-> startIST, endTimeIST |-> endIST,
                   isSundayFullTest |-> test.isSundayFullTest]
        active == common @@ [status |-> "active", hasSubmitted |-> hasSubmitted,
                             submittedPhases |-> submittedPhases]
        body ==
            IF windowStatus(test) = "not_started"
            THEN common @@ [status |-> "not_started", hasSubmitted |-> FALSE,
                            submittedPhases |-> <<>>,
                            message |-> "Test has not started yet"]
            ELSE IF windowStatus(test) = "archived"
            THEN common @@ [status |-> "archived", hasSubmitted |-> hasSubmitted,
                            submittedPhases |-> submittedPhases,
                            canReview |-> hasSubmitted,
                            message |-> "Today's test has ended and is now archived."]
            ELSE IF test.isSundayFullTest
            THEN active @@
                 [phases |->
                    [GS |-> [count |-> Len(InPhase("GS")),
                             questions |-> InPhase("GS")],
                     CSAT |-> [count |-> Len(InPhase("CSAT")),
                               questions |-> InPhase("CSAT")]]]
            ELSE active @@ [questions |-> questions]
    IN  IF ~auth.ok THEN auth.resp
        ELSE IF found = {}
        THEN Response("today-test", auth.uid, NULL, NULL, 404,
                      [message |-> "No paid test available today"])
        ELSE Response("today-test", auth.uid, test._id, NULL, 200, body)

TodayTest ==
    \E token \in Tokens :
        /\ resp = NoResp
        /\ resp' = todayTest(token)
        /\ UNCHANGED <<dbVars, clock, isSundayFullTest, firebaseInitialized, results,
                       freeResults, pending>>

\* ------------------------------------------- the per-phase rank of a result
\* the body of `for (const r of userResults)` in submission-status and
\* my-rank: the entry of r.phase (a later r of the same phase overwrites it)
phaseRank(led, testId, r) ==
    [score |-> Round2(r.score), correct |-> r.correct,
     incorrect |-> r.incorrect, unattempted |-> r.unattempted,
     rank |-> countBetter(led, testId, r.phase, r.score, r.submittedAt) + 1,
     totalParticipants |-> countRanked(led, testId, r.phase)]

rankData(led, testId, userResults) ==
    [ph \in {led[i].phase : i \in userResults} |->
        LET last == CHOOSE i \in userResults :
                        /\ led[i].phase = ph
                        /\ \A j \in userResults : led[j].phase = ph => j <= i
        IN  phaseRank(led, testId, led[last])]

\* the combined entry of submission-status and my-rank
combinedRank(led, testId, userResults) ==
    LET combinedScore ==
            SumOver([i \in 1..Len(led) |-> led[i].score], userResults)
    IN  [score |-> Round2(combinedScore),
         rank |-> countBetterCombined(led, testId, combinedScore) + 1,
         totalParticipants |-> Cardinality(CombinedUsers(led, testId))]

\* ------------------------------------- GET /user/submission-status/:testId
submissionStatus(token, testId) ==
    LET auth == userAuth("submission-status", token, testId, NULL)
        test == Test(testId)
        phases == IF test.isSundayFullTest THEN {"GS", "CSAT"} ELSE {"GS"}
        userResults == OnTimeOf(results, auth.uid, testId, phases)
        submittedPhases == PhasesOf(results, userResults)
        hasSubmitted == Len(submittedPhases) > 0
        rankRevealNow == isRankRevealTime
        response == [hasSubmitted |-> hasSubmitted,
                     submittedPhases |-> submittedPhases,
                     rankRevealTime |-> rankRevealTimeIST,
                     rankRevealNow |-> rankRevealNow]
        withRank == response @@ [rankData |-> rankData(results, testId, userResults)]
        body ==
            IF hasSubmitted /\ rankRevealNow
            THEN IF test.isSundayFullTest /\ Cardinality(userResults) = 2
                 THEN withRank @@
                      [combinedRank |-> combinedRank(results, testId, userResults)]
                 ELSE withRank
            ELSE response
    IN  IF ~auth.ok THEN auth.resp
        ELSE IF ~TestExists(testId)
        THEN Response("submission-status", auth.uid, testId, NULL, 404,
                      [message |-> "Test not found"])
        ELSE Response("submission-status", auth.uid, testId, NULL, 200, body)

SubmissionStatus ==
    \E token \in Tokens, testId \in TestIds :
        /\ resp = NoResp
        /\ resp' = submissionStatus(token, testId)
        /\ UNCHANGED <<dbVars, clock, isSundayFullTest, firebaseInitialized, results,
                       freeResults, pending>>

\* ------------------------------------------------ GET /user/my-rank/:testId
myRank(token, testId) ==
    LET auth == userAuth("my-rank", token, testId, NULL)
        test == Test(testId)
        phases == IF test.isSundayFullTest THEN {"GS", "CSAT"} ELSE {"GS"}
        userResults == OnTimeOf(results, auth.uid, testId, phases)
        rankRevealNow == isRankRevealTime
        response == [phases |-> rankData(results, testId, userResults),
                     rankRevealNow |-> TRUE]
        body ==
            IF test.isSundayFullTest /\ Cardinality(userResults) = 2
            THEN response @@
                 [combined |-> combinedRank(results, testId, userResults)]
            ELSE response
    IN  IF ~auth.ok THEN auth.resp
        ELSE IF ~TestExists(testId)
        THEN Response("my-rank", auth.uid, testId, NULL, 404,
                      [message |-> "Test not found"])
        ELSE IF userResults = {}
        THEN Response("my-rank", auth.uid, testId, NULL, 404,
                      [message |-> "No on-time ranked attempt found"])
        ELSE IF ~rankRevealNow
        THEN Response("my-rank", auth.uid, testId, NULL, 200,
                      [rankRevealNow |-> FALSE,
                       rankRevealTime |-> rankRevealTimeIST,
                       message |-> "Ranks will be revealed later today. Come back then!",
                       hasSubmitted |-> TRUE])
        ELSE Response("my-rank", auth.uid, testId, NULL, 200, body)

MyRank ==
    \E token \in Tokens, testId \in TestIds :
        /\ resp = NoResp
        /\ resp' = myRank(token, testId)
        /\ UNCHANGED <<dbVars, clock, isSundayFullTest, firebaseInitialized, results,
                       freeResults, pending>>

\* -------------------------------------------- GET /user/review-test/:testId
\* req.query.phase: absent, or a string
PhaseQueries == {NULL, "GS", "CSAT"}

\* result.answers.find(a => a.questionId === q._id.toString())
FindAnswer(answers, questionId) ==
    LET hit == {i \in 1..Len(answers) : answers[i].questionId = questionId}
    IN  {i \in hit : \A j \in hit : i <= j}

reviewQuestion(result, q) ==
    LET found == FindAnswer(result.answers, q._id)
        userAns == result.answers[CHOOSE i \in found : TRUE]
    IN  [questionNumber |-> q.questionNumber, questionId |-> q._id,
         yourAnswer |-> IF found = {} THEN NULL ELSE userAns.selectedOption,
         correctAnswer |-> q.correctOption,
         isCorrect |-> IF found = {} THEN FALSE
                       ELSE userAns.selectedOption = q.correctOption]

\* variant: the filter without userId
reviewFilterAnyUser(uid, testId, phase) ==
    {i \in 1..Len(results) :
        /\ results[i].testId = testId
        /\ (Test(testId).isSundayFullTest => results[i].phase = phase)}

\* Result.findOne(filter) with filter = {userId, testId} and, for a two-phase
\* test, phase: the documents the filter matches
reviewFilter(uid, testId, phase) ==
    {i \in 1..Len(results) :
        /\ results[i].userId = uid
        /\ results[i].testId = testId
        /\ (Test(testId).isSundayFullTest => results[i].phase = phase)}

\* rankInfo: null is the key left out
reviewTest(token, testId, phaseQuery) ==
    LET auth == userAuth("review-test", token, testId, phaseQuery)
        test == Test(testId)
        phase == IF phaseQuery = NULL THEN "GS" ELSE phaseQuery
        filter == reviewFilter(auth.uid, testId, phase)
        result == FindOne(results, filter)
        questions == QuestionsOf(testId, phase)
        reviewQuestions ==
            [i \in 1..Len(questions) |-> reviewQuestion(result, questions[i])]
        rankRevealNow == isRankRevealTime
        rankInfo ==
            [phase |-> result.phase, score |-> Round2(result.score),
             rank |-> countBetter(results, testId, result.phase, result.score,
                                  result.submittedAt) + 1,
             totalParticipants |-> countRanked(results, testId, result.phase)]
        base == [phase |-> result.phase, score |-> Round2(result.score),
                 correct |-> result.correct, incorrect |-> result.incorrect,
                 unattempted |-> result.unattempted,
                 submittedAt |-> result.submittedAt, isLate |-> result.isLate,
                 rankRevealNow |-> rankRevealNow,
                 rankRevealTime |-> rankRevealTimeIST,
                 questions |-> reviewQuestions]
        body == IF ~result.isLate /\ rankRevealNow
                THEN base @@ [rankInfo |-> rankInfo]
                ELSE base
    IN  IF ~auth.ok THEN auth.resp
        ELSE IF ~TestExists(testId) \/ test.testType # "paid"
        THEN Response("review-test", auth.uid, testId, phaseQuery, 404,
                      [message |-> "Test not found or not paid"])
        ELSE IF filter = {}
        THEN Response("review-test", auth.uid, testId, phaseQuery, 404,
                      [message |-> "No submission found for this phase"])
        ELSE Response("review-test", auth.uid, testId, phaseQuery, 200, body)

ReviewTest ==
    \E token \in Tokens, testId \in TestIds, phaseQuery \in PhaseQueries :
        /\ resp = NoResp
        /\ resp' = reviewTest(token, testId, phaseQuery)
        /\ UNCHANGED <<dbVars, clock, isSundayFullTest, firebaseInitialized, results,
                       freeResults, pending>>

\* ------------------------------------------------------------------ sorting
\* the orders in which the members of the finite set S can be listed
Perms(S) ==
    {f \in [1..Cardinality(S) -> S] :
        \A i, j \in 1..Cardinality(S) : i # j => f[i] # f[j]}

\* a sort: the listings of S in which no element comes after one it must
\* precede (documents the sort key does not separate come in either order)
SortedBy(S, precedes) ==
    {f \in Perms(S) : \A i, j \in DOMAIN f : i < j => <<f[j], f[i]>> \notin precedes}

\* .sort({score: -1, submittedAt: 1}) over the documents of led at idx
sortByScoreThenTime(led, idx) ==
    LET Precedes(i, j) ==
            \/ led[i].score > led[j].score
            \/ (led[i].score = led[j].score /\ led[i].submittedAt < led[j].submittedAt)
    IN  {[k \in DOMAIN f |-> led[f[k]]] : f \in SortedBy(idx, {p \in idx \X idx : Precedes(p[1], p[2])})}

\* ---------------------------------------------- GET /user/leaderboard/:testId
\* the $group stage of the combined leaderboard
combinedEntry(led, testId, uid) ==
    LET mine == {i \in CombinedMatch(led, testId) : led[i].userId = uid}
        scores == [i \in 1..Len(led) |-> led[i].score]
    IN  [_id |-> uid,
         totalScore |-> SumOver(scores, mine),
         gsScore |-> SumOver(scores, {i \in mine : led[i].phase = "GS"}),
         csatScore |-> SumOver(scores, {i \in mine : led[i].phase = "CSAT"})]

\* $sort: {totalScore: -1}, $limit: 20, then the numbering of the entries
combinedLeaderboards(led, testId) ==
    LET groups == {combinedEntry(led, testId, u) : u \in CombinedUsers(led, testId)}
        Precedes(a, b) == a.totalScore > b.totalScore
    IN  {LET top == Take(f, PhaseLeaderboardLimit)
         IN  [idx \in DOMAIN top |->
                [rank |-> idx, userId |-> top[idx]._id,
                 totalScore |-> Round2(top[idx].totalScore),
                 gs |-> Round2(top[idx].gsScore),
                 csat |-> Round2(top[idx].csatScore)]] :
         f \in SortedBy(groups, {p \in groups \X groups : Precedes(p[1], p[2])})}

\* the bodies the handler can answer with for a test that exists
leaderboardBodies(led, testId) ==
    LET test == Test(testId)
        Single(r) == [userId |-> r.userId, score |-> Round2(r.score),
                      submittedAt |-> r.submittedAt]
        Entry(r) == [userId |-> r.userId, score |-> Round2(r.score)]
    IN  IF ~test.isSundayFullTest
        THEN {[phase |-> "GS",
               leaderboard |-> LET top == Take(sorted, LeaderboardLimit)
                               IN  [k \in 1..Len(top) |-> Single(top[k])],
               totalRankedParticipants |-> countRanked(led, testId, "GS")] :
              sorted \in sortByScoreThenTime(led, Cohort(led, testId, "GS"))}
        ELSE {[isSundayFullTest |-> TRUE,
               gs |-> [leaderboard |->
                         LET top == Take(gsResults, PhaseLeaderboardLimit)
                         IN  [k \in 1..Len(top) |-> Entry(top[k])],
                       total |-> countRanked(led, testId, "GS")],
               csat |-> [leaderboard |->
                           LET top == Take(csatResults, PhaseLeaderboardLimit)
                           IN  [k \in 1..Len(top) |-> Entry(top[k])],
                         total |-> countRanked(led, testId, "CSAT")],
               combined |-> [leaderboard |-> combined,
                             totalUniqueParticipants |->
                                Cardinality(CombinedUsers(led, testId))]] :
              gsResults \in sortByScoreThenTime(led, Cohort(led, testId, "GS")),
              csatResults \in sortByScoreThenTime(led, Cohort(led, testId, "CSAT")),
              combined \in combinedLeaderboards(led, testId)}

leaderboard(token, testId) ==
    LET auth == userAuth("leaderboard", token, testId, NULL)
    IN  IF ~auth.ok THEN {auth.resp}
        ELSE IF ~TestExists(testId)
        THEN {Response("leaderboard", auth.uid, testId, NULL, 404,
                       [message |-> "Test not found"])}
        ELSE {Response("leaderboard", auth.uid, testId, NULL, 200, body) :
              body \in leaderboardBodies(results, testId)}

Leaderboard ==
    \E token \in Tokens, testId \in TestIds :
        /\ resp = NoResp
        /\ resp' \in leaderboard(token, testId)
        /\ UNCHANGED <<dbVars, clock, isSundayFullTest, firebaseInitialized, results,
                       freeResults, pending>>

\* ------------------------------------------- the cross-test aggregations
OnTimeAll(led) == {i \in 1..Len(led) : ~led[i].isLate}

OnTimeUsers(led) == {led[i].userId : i \in OnTimeAll(led)}

\* $sum of correct * 2 - incorrect * (2 / 3) over the on-time results of uid
totalMarksOf(led, uid) ==
    SumOver([i \in 1..Len(led) |-> (led[i].correct * 6) - (led[i].incorrect * 2)],
            {i \in OnTimeAll(led) : led[i].userId = uid})

totalCorrectOf(led, uid) ==
    SumOver([i \in 1..Len(led) |-> led[i].correct],
            {i \in OnTimeAll(led) : led[i].userId = uid})

\* Math.round(n / d * 100): a half is rounded up
RoundPercent(n, d) == ((200 * n) + d) \div (2 * d)

\* --------------------------------------------------- GET /user/overall-rank
overallRank(token) ==
    LET auth == userAuth("overall-rank", token, NULL, NULL)
        uid == auth.uid
        userResults == {i \in OnTimeAll(results) : results[i].userId = uid}
        totalMarks == totalMarksOf(results, uid)
        betterUsers == Cardinality({u \in OnTimeUsers(results) :
                                      totalMarksOf(results, u) > totalMarks})
        rank == betterUsers + 1
        totalParticipants == Cardinality(OnTimeUsers(results))
    IN  IF ~auth.ok THEN auth.resp
        ELSE IF userResults = {}
        THEN Response("overall-rank", uid, NULL, NULL, 200,
                      [hasRank |-> FALSE, totalMarks |-> 0, totalCorrect |-> 0,
                       testsGiven |-> 0])
        ELSE Response("overall-rank", uid, NULL, NULL, 200,
                      [hasRank |-> TRUE, rank |-> rank,
                       totalMarks |-> Round2(totalMarks),
                       totalCorrect |-> totalCorrectOf(results, uid),
                       testsGiven |-> Cardinality(userResults),
                       totalParticipants |-> totalParticipants,
                       percentile |->
                          IF totalParticipants > 0
                          THEN RoundPercent(totalParticipants - rank, totalParticipants)
                          ELSE 0])

OverallRank ==
    \E token \in Tokens :
        /\ resp = NoResp
        /\ resp' = overallRank(token)
        /\ UNCHANGED <<dbVars, clock, isSundayFullTest, firebaseInitialized, results,
                       freeResults, pending>>

\* --------------------------------------------------- GET /leaderboard/global
\* req.query.limit: absent, or a number
LimitQueries == {0, 1}

\* the bodies the handler can answer with ($sort on totalMarks alone)
globalLeaderboardBodies(led, limitQuery) ==
    LET limit == IF limitQuery = 0 THEN GlobalLimitDefault ELSE limitQuery
        groups == {[_id |-> u, totalMarks |-> totalMarksOf(led, u),
                    totalCorrect |-> totalCorrectOf(led, u),
                    testsGiven |-> Cardinality({i \in OnTimeAll(led) :
                                                  led[i].userId = u})] :
                   u \in OnTimeUsers(led)}
        Precedes(a, b) == a.totalMarks > b.totalMarks
    IN  {LET top == Take(f, limit)
         IN  [leaderboard |->
                [idx \in DOMAIN top |->
                   [userId |-> top[idx]._id,
                    totalMarks |-> Round2(top[idx].totalMarks),
                    totalCorrect |-> top[idx].totalCorrect,
                    testsGiven |-> top[idx].testsGiven,
                    rank |-> idx]],
              totalParticipants |-> Cardinality(OnTimeUsers(led))] :
         f \in SortedBy(groups, {p \in groups \X groups : Precedes(p[1], p[2])})}

\* the response is kept together with the req.query.limit of its request
GlobalLeaderboard ==
    \E limitQuery \in LimitQueries :
        /\ resp = NoResp
        /\ resp' \in {Response("leaderboard-global", NoUser, NULL, NULL, 200, body)
                         @@ [limit |-> limitQuery] :
                      body \in globalLeaderboardBodies(results, limitQuery)}
        /\ UNCHANGED <<dbVars, clock, isSundayFullTest, firebaseInitialized, results,
                       freeResults, pending>>

\* ------------------------------------------------------- GET /user/analytics
\* the totals of the summary (its percentages and streaks are left out)
analyticsSummary(token) ==
    LET auth == userAuth("analytics-summary", token, NULL, NULL)
        uid == auth.uid
        mine == {i \in OnTimeAll(results) : results[i].userId = uid}
    IN  IF ~auth.ok THEN auth.resp
        ELSE Response("analytics-summary", uid, NULL, NULL, 200,
               [testsGiven |-> Cardinality(mine),
                totalCorrect |-> totalCorrectOf(results, uid),
                totalIncorrect |->
                    SumOver([i \in 1..Len(results) |-> results[i].incorrect], mine),
                totalUnattempted |->
                    SumOver([i \in 1..Len(results) |-> results[i].unattempted], mine)])

AnalyticsSummary ==
    \E token \in Tokens :
        /\ resp = NoResp
        /\ resp' = analyticsSummary(token)
        /\ UNCHANGED <<dbVars, clock, isSundayFullTest, firebaseInitialized, results,
                       freeResults, pending>>

\* .sort({submittedAt: -1}).limit(30), then the fields of each attempt
analyticsAttempts(token) ==
    LET auth == userAuth("analytics-attempts", token, NULL, NULL)
        uid == auth.uid
        mine == {i \in OnTimeAll(results) : results[i].userId = uid}
        Precedes(i, j) == results[i].submittedAt > results[j].submittedAt
        Attempt(i) ==
            [testId |-> results[i].testId, phase |-> results[i].phase,
             score |-> results[i].score, correct |-> results[i].correct,
             incorrect |-> results[i].incorrect,
             unattempted |-> results[i].unattempted,
             totalQuestions |-> results[i].totalQuestions,
             submittedAt |-> results[i].submittedAt]
    IN  IF ~auth.ok THEN {auth.resp}
        ELSE {Response("analytics-attempts", uid, NULL, NULL, 200,
                       [attempts |-> LET top == Take(f, AttemptsLimitDefault)
                                    IN  [k \in 1..Len(top) |-> Attempt(top[k])]]) :
              f \in SortedBy(mine, {p \in mine \X mine : Precedes(p[1], p[2])})}

AnalyticsAttempts ==
    \E token \in Tokens :
        /\ resp = NoResp
        /\ resp' \in analyticsAttempts(token)
        /\ UNCHANGED <<dbVars, clock, isSundayFullTest, firebaseInitialized, results,
                       freeResults, pending>>

\* -------------------------------------------------------------------- GET /
Root ==
    /\ resp = NoResp
    /\ resp' = Response("root", NoUser, NULL, NULL, 200,
                        [status |-> "User Backend Running",
                         firebaseReady |-> firebaseInitialized,
                         currentServerDateUTC |-> DateOf(clock)])
    /\ UNCHANGED <<dbVars, clock, isSundayFullTest, firebaseInitialized, results,
                   freeResults, pending>>

\* -------------------------------------------------------------- free routes
FreeTestIds == {id \in AllTests : Test(id).testType = "free"}

\* GET /free/tests
FreeTests ==
    /\ resp = NoResp
    /\ resp' =
         IF FreeTestIds = {}
         THEN Response("free-tests", NoUser, NULL, NULL, 404,
                       [message |-> "No free tests available"])
         ELSE Response("free-tests", NoUser, NULL, NULL, 200,
                [success |-> TRUE,
                 tests |-> {[testId |-> id,
                             totalQuestions |-> Test(id).totalQuestions,
                             date |-> Test(id).date,
                             startTimeIST |-> Test(id).startTime + IST_OFFSET_MS,
                             endTimeIST |-> Test(id).endTime + IST_OFFSET_MS] :
                            id \in FreeTestIds}])
    /\ UNCHANGED <<dbVars, clock, isSundayFullTest, firebaseInitialized, results,
                   freeResults, pending>>

\* the body of /free/test/:testId and of /free/today-test for a free test
freeTestBody(id) ==
    [status |-> "active", testId |-> id,
     totalQuestions |-> Test(id).totalQuestions, date |-> Test(id).date,
     questions |->
        LET found == SelectSeqBy(Question,
                        {i \in 1..Len(Question) : Question[i].testId = id})
        IN  [k \in 1..Len(found) |-> selectWithoutCorrectOption(found[k])],
     isPersistentFreeTest |-> TRUE]

\* GET /free/test/:testId
FreeTest ==
    \E testId \in TestIds :
        /\ resp = NoResp
        /\ resp' =
             IF testId \notin FreeTestIds
             THEN Response("free-test", NoUser, testId, NULL, 404,
                           [message |-> "Free test not found"])
             ELSE Response("free-test", NoUser, testId, NULL, 200,
                           freeTestBody(testId))
        /\ UNCHANGED <<dbVars, clock, isSundayFullTest, firebaseInitialized, results,
                       freeResults, pending>>

\* GET /free/today-test: the free test created last
FreeTodayTest ==
    /\ resp = NoResp
    /\ resp' =
         IF FreeTestIds = {}
         THEN Response("free-today-test", NoUser, NULL, NULL, 404,
                       [message |-> "No free test available at the moment"])
         ELSE LET id == CHOOSE t \in FreeTestIds : TRUE
              IN  Response("free-today-test", NoUser, id, NULL, 200,
                           freeTestBody(id))
    /\ UNCHANGED <<dbVars, clock, isSundayFullTest, firebaseInitialized, results,
                   freeResults, pending>>

\* the scoring loop of /free/submit-test: the questions whose first matching
\* answer selects the correct option
freeScore(answers, questions) ==
    Cardinality({i \in 1..Len(questions) :
        LET found == FindAnswer(answers, questions[i]._id)
        IN  /\ found # {}
            /\ answers[CHOOSE k \in found : TRUE].selectedOption
                 = questions[i].correctOption})

freeCountBetter(led, testId, score, submittedAt) ==
    Cardinality({i \in 1..Len(led) :
        /\ led[i].testId = testId
        /\ \/ led[i].score > score
           \/ (led[i].score = score /\ led[i].submittedAt < submittedAt)})

freeCount(led, testId) ==
    Cardinality({i \in 1..Len(led) : led[i].testId = testId})

\* POST /free/submit-test/:testId
FreeSubmit ==
    \E testId \in TestIds, answers \in AnswerInputs :
        LET questions == SelectSeqBy(Question,
                            {i \in 1..Len(Question) : Question[i].testId = testId})
            score == freeScore(answers.items, questions)
            result == [testId |-> testId, score |-> score,
                       totalQuestions |-> Len(questions), submittedAt |-> clock]
            led == Append(freeResults, result)
            betterCount == freeCountBetter(led, testId, score, result.submittedAt)
            total == freeCount(led, testId)
        IN  /\ resp = NoResp
            /\ InFlight = 0
            /\ IF ~answers.isArray
               THEN /\ freeResults' = freeResults
                    /\ resp' = Response("free-submit", NoUser, testId, NULL, 400,
                                        [message |-> "answers must be array"])
               ELSE IF questions = <<>>
               THEN /\ freeResults' = freeResults
                    /\ resp' = Response("free-submit", NoUser, testId, NULL, 404,
                                        [message |-> "Test not found"])
               ELSE /\ Stored < MaxDocs
                    /\ freeResults' = led
                    /\ resp' = Response("free-submit", NoUser, testId, NULL, 200,
                                 [score |-> score, total |-> total,
                                  yourRank |-> betterCount + 1])
            /\ UNCHANGED <<dbVars, clock, isSundayFullTest, firebaseInitialized, results,
                           pending>>

\* GET /free/leaderboard/:testId
freeLeaderboardBodies(led, testId) ==
    {[leaderboard |->
        LET top == Take(sorted, FreeLeaderboardLimit)
        IN  [idx \in DOMAIN top |->
               [rank |-> idx, score |-> top[idx].score,
                totalQuestions |-> top[idx].totalQuestions,
                submittedAt |-> top[idx].submittedAt]],
      totalParticipants |-> freeCount(led, testId)] :
     sorted \in sortByScoreThenTime(led,
                    {i \in 1..Len(led) : led[i].testId = testId})}

FreeLeaderboard ==
    \E testId \in TestIds :
        /\ resp = NoResp
        /\ resp' \in {Response("free-leaderboard", NoUser, testId, NULL, 200, body) :
                      body \in freeLeaderboardBodies(freeResults, testId)}
        /\ UNCHANGED <<dbVars, clock, isSundayFullTest, firebaseInitialized, results,
                       freeResults, pending>>

\* ------------------------------------------------------------------- clock
Tick ==
    /\ resp = NoResp
    /\ clock < MaxClock
    /\ clock' = clock + 1
    /\ UNCHANGED <<dbVars, isSundayFullTest, firebaseInitialized, results,
                   freeResults, pending, resp>>

\* res.json(...): the response leaves the server and the handler ends.  The
\* handlers above are taken one request at a time.
Respond ==
    /\ resp # NoResp
    /\ resp' = NoResp
    /\ UNCHANGED <<dbVars, clock, isSundayFullTest, firebaseInitialized, results,
                   freeResults, pending>>

Init ==
    /\ clock = FirstInstant
    /\ isSundayFullTest \in BOOLEAN
    /\ firebaseInitialized \in BOOLEAN
    /\ results = <<>>
    /\ freeResults = <<>>
    /\ pending = [s \in 1..MaxInFlight |-> Idle]
    /\ resp = NoResp
    /\ cached = [conn |-> NULL, promise |-> NoPromise]
    /\ promises = <<>>
    /\ calls = [c \in 1..MaxCalls |-> NotCalled]

Next ==
    \/ Tick
    \/ Respond
    \/ Submit
    \/ TodayTest
    \/ SubmissionStatus
    \/ MyRank
    \/ ReviewTest
    \/ Leaderboard
    \/ OverallRank
    \/ GlobalLeaderboard
    \/ AnalyticsSummary
    \/ AnalyticsAttempts
    \/ Root
    \/ FreeTests
    \/ FreeTest
    \/ FreeTodayTest
    \/ FreeSubmit
    \/ FreeLeaderboard

Spec == Init /\ [][Next]_vars

NextRace ==
    \/ Tick
    \/ Respond
    \/ SubmitCheck
    \/ SubmitCreate

SpecRace == Init /\ [][NextRace]_vars

\* ------------------------------------------------ grading, more answer lists
\* req.body.answers for the grading loop: the empty list, a question left
\* out, a null selectedOption, two entries for one question, and entries
\* whose questionId ("qx") is the id of no question
GradeInputs ==
    {[isArray |-> TRUE, items |-> items] : items \in
        { <<>>,
          <<Answer("q1", "option1")>>,
          <<Answer("q1", "option1"), Answer("q2", "option1")>>,
          <<Answer("q1", NULL), Answer("q2", "option2")>>,
          <<Answer("q1", "option1"), Answer("q1", "option1")>>,
          <<Answer("qx", "option1")>>,
          <<Answer("qx", "option1"), Answer("q1", "option1")>>,
          <<Answer("q1", "option1"), Answer("qx", NULL), Answer("q2", "option1")>>,
          <<Answer("q1", NULL), Answer("q2", "option2"), Answer("qx", "option2")>> }}

\* POST /user/submit-test/:testId, one request from start to end, with the
\* answer lists of GradeInputs
SubmitGraded ==
    \E token \in Tokens, testId \in TestIds, phase \in PhaseInputs,
       answers \in GradeInputs :
        LET chk == submitCheck(token, testId, phase, answers)
        IN  /\ resp = NoResp
            /\ IF chk.ok
               THEN LET doc == submitDoc(chk.req)
                        led == ResultCreate(results, doc)
                    IN  /\ Len(results) < MaxGraded
                        /\ results' = led
                        /\ resp' = submitRespond(led, chk.req, doc)
               ELSE /\ results' = results
                    /\ resp' = chk.resp
            /\ UNCHANGED <<dbVars, clock, isSundayFullTest, firebaseInitialized,
                           freeResults, pending>>

NextGrade ==
    \/ Tick
    \/ Respond
    \/ SubmitGraded

SpecGrade == Init /\ [][NextGrade]_vars

\* ------------------------------------------- a storage operation that fails
\* the awaited storage operations of the submit handler, in the order of the
\* code; "rank queries" are the countDocuments, findOne, aggregate and
\* distinct calls after Result.create
StorageOps ==
    {"connectDB", "Test.findById", "Result.findOne", "Question.find",
     "Result.create", "rank queries"}

\* the request gets as far as calling op
submitReaches(token, testId, phase, answers, op) ==
    LET auth == userAuth("submit", token, testId, phase)
        valid == phase \in {"GS", "CSAT"} /\ answers.isArray
        found == TestExists(testId) /\ Test(testId).testType = "paid"
        chk == submitCheck(token, testId, phase, answers)
    IN  /\ auth.ok
        /\ op # "connectDB" => valid
        /\ op \notin {"connectDB", "Test.findById"} => found
        /\ op \notin {"connectDB", "Test.findById", "Result.findOne"}
             => ~existingSubmission(auth.uid, testId, phase)
        /\ op \in {"Result.create", "rank queries"} => chk.ok
        /\ op = "rank queries" => (~chk.req.isLate /\ isRankRevealTime)

\* POST /user/submit-test/:testId when the storage operation op throws: the
\* catch block answers 500; what was stored before the throw stays stored
SubmitFails ==
    \E token \in Tokens, testId \in TestIds, phase \in PhaseInputs,
       answers \in AnswerInputs, op \in StorageOps :
        /\ resp = NoResp
        /\ InFlight = 0
        /\ submitReaches(token, testId, phase, answers, op)
        /\ IF op = "rank queries"
           THEN /\ Stored < MaxDocs
                /\ results' = ResultCreate(results,
                      submitDoc(submitCheck(token, testId, phase, answers).req))
           ELSE results' = results
        /\ resp' = Response("submit", verifyIdToken(token), testId, phase, 500,
                            [message |-> "Server error"])
        /\ UNCHANGED <<dbVars, clock, isSundayFullTest, firebaseInitialized,
                       freeResults, pending>>

NextFail ==
    \/ Tick
    \/ Respond
    \/ Submit
    \/ SubmitFails

SpecFail == Init /\ [][NextFail]_vars

\* ------------------------------------------- the attempt-lock revision
\* src/index.js: one Result per (userId, testId), created by today-test as
\* an attempt lock and written again by submit-test.  results is this
\* revision's Result collection; the test of the day is t1.
AttemptMinutes == 2          \* 60 minutes
AttemptLeaderboardLimit == 50

\* userAuth of this revision: 401 without a token or with an invalid one
attemptAuth(route, token) ==
    IF token = NULL
    THEN [ok |-> FALSE,
          resp |-> Response(route, NoUser, NULL, NULL, 401, [message |-> "No token"])]
    ELSE IF verifyIdToken(token) = NoUser
    THEN [ok |-> FALSE,
          resp |-> Response(route, NoUser, NULL, NULL, 401,
                            [message |-> "Invalid Firebase token"])]
    ELSE [ok |-> TRUE, uid |-> verifyIdToken(token)]

\* Result.findOne({userId, testId}): the documents it matches
attemptOf(uid, testId) ==
    {i \in 1..Len(results) :
        results[i].userId = uid /\ results[i].testId = testId}

\* GET /user/today-test: creates the attempt lock and serves the questions
AttemptTodayTest ==
    \E token \in Tokens :
        LET auth == attemptAuth("attempt-today-test", token)
            today == clock \div 48
            found == {id \in {"t1"} : Test(id).date = today}
            test == Test(CHOOSE id \in found : TRUE)
            docs == SelectSeqBy(Question,
                        {i \in 1..Len(Question) : Question[i].testId = test._id})
            questions == [k \in 1..Len(docs) |-> selectWithoutCorrectOption(docs[k])]
            Answered(code, body) ==
                Response("attempt-today-test", auth.uid, test._id, NULL, code, body)
        IN  /\ resp = NoResp
            /\ IF ~auth.ok
               THEN results' = results /\ resp' = auth.resp
               ELSE IF found = {}
               THEN /\ results' = results
                    /\ resp' = Response("attempt-today-test", auth.uid, NULL, NULL,
                                        404, [message |-> "No test today"])
               ELSE IF attemptOf(auth.uid, test._id) # {}
               THEN /\ results' = results
                    /\ resp' = Answered(400, [message |-> "Already attempted today"])
               ELSE /\ results' = Append(results,
                          [userId |-> auth.uid, testId |-> test._id, score |-> 0,
                           totalQuestions |-> test.totalQuestions,
                           startedAt |-> clock, submittedAt |-> clock])
                    /\ resp' = Answered(200,
                          [testId |-> test._id,
                           totalQuestions |-> test.totalQuestions,
                           questions |-> questions])
            /\ UNCHANGED <<dbVars, clock, isSundayFullTest, firebaseInitialized,
                           freeResults, pending>>

\* the forEach of submit-test: one mark per question whose first matching
\* answer has the correct option
attemptScore(answers, testId) ==
    Cardinality({k \in 1..Len(Question) :
        /\ Question[k].testId = testId
        /\ \E a \in FindAnswer(answers, Question[k]._id) :
              answers[a].selectedOption = Question[k].correctOption})

\* POST /user/submit-test/:testId: grades and saves into the attempt
AttemptSubmit ==
    \E token \in Tokens, testId \in AllTests, answers \in AnswerInputs :
        LET auth == attemptAuth("attempt-submit", token)
            found == attemptOf(auth.uid, testId)
            at == CHOOSE i \in found : \A j \in found : i <= j
            score == attemptScore(answers.items, testId)
            saved == [results EXCEPT ![at].score = score,
                                     ![at].submittedAt = clock]
            Answered(code, body) ==
                Response("attempt-submit", auth.uid, testId, NULL, code, body)
        IN  /\ resp = NoResp
            /\ answers.isArray
            /\ IF ~auth.ok
               THEN results' = results /\ resp' = auth.resp
               ELSE IF found = {}
               THEN /\ results' = results
                    /\ resp' = Answered(400, [message |-> "Test not started"])
               ELSE IF clock - results[at].startedAt > AttemptMinutes
               THEN /\ results' = results
                    /\ resp' = Answered(400, [message |-> "Time expired"])
               ELSE /\ results' = saved
                    /\ resp' = Answered(200,
                          [score |-> score,
                           totalQuestions |->
                              Cardinality({k \in 1..Len(Question) :
                                              Question[k].testId = testId}),
                           rank |-> Cardinality({i \in 1..Len(saved) :
                                       /\ saved[i].testId = testId
                                       /\ saved[i].score > score}) + 1])
            /\ UNCHANGED <<dbVars, clock, isSundayFullTest, firebaseInitialized,
                           freeResults, pending>>

\* GET /user/leaderboard/:testId of this revision (no authentication)
AttemptLeaderboard ==
    \E testId \in AllTests :
        /\ resp = NoResp
        /\ resp' \in
             {Response("attempt-leaderboard", NoUser, testId, NULL, 200,
                       [topUsers |-> Take(sorted, AttemptLeaderboardLimit)]) :
              sorted \in sortByScoreThenTime(results,
                            {i \in 1..Len(results) : results[i].testId = testId})}
        /\ UNCHANGED <<dbVars, clock, isSundayFullTest, firebaseInitialized, results,
                       freeResults, pending>>

NextAttempt ==
    \/ Tick
    \/ Respond
    \/ AttemptTodayTest
    \/ AttemptSubmit
    \/ AttemptLeaderboard

SpecAttempt == Init /\ [][NextAttempt]_vars

\* ------------------------------------------------- the clock over midnight
\* The server keeps running over several days: isRankRevealTime reads the
\* time of day of Date.now(), whatever the day.
MaxDay == 1             \* the last calendar day (UTC) the clock reaches

\* time passes until the same start-up time of the next day (10:30 IST)
NextMorning ==
    /\ resp = NoResp
    /\ DateOf(clock) < MaxDay
    /\ clock' = ((DateOf(clock) + 1) * 48) + FirstInstant
    /\ UNCHANGED <<dbVars, isSundayFullTest, firebaseInitialized, results,
                   freeResults, pending, resp>>

NextReveal ==
    \/ Tick
    \/ NextMorning
    \/ Respond
    \/ Submit
    \/ MyRank

SpecReveal == Init /\ [][NextReveal]_vars

\* ---------------------------------- concurrent submits followed by a rank
\* The requests of SpecRace with one more document stored, so that a user
\* who holds two on-time documents of one phase submits the other phase.
MaxRanked == 3          \* documents stored when the answer lists are RankAnswers

\* req.body.answers of these requests: the first question answered correctly
RankAnswers ==
    { [isArray |-> TRUE, items |-> <<Answer("q1", "option1")>>] }

\* SubmitCheck for the paid test, with a valid token and a valid phase
SubmitCheckRanked ==
    \E s \in DOMAIN pending, token \in {"tok_u1", "tok_u2"},
       phase \in Phases, answers \in RankAnswers :
        LET chk == submitCheck(token, "t1", phase, answers)
        IN  /\ resp = NoResp
            /\ ~pending[s].busy
            /\ \A r \in DOMAIN pending : r < s => pending[r].busy
            /\ IF chk.ok
               THEN /\ Stored + InFlight < MaxRanked
                    /\ pending' = [pending EXCEPT ![s] = chk.req]
                    /\ resp' = NoResp
               ELSE /\ pending' = pending
                    /\ resp' = chk.resp
            /\ UNCHANGED <<dbVars, clock, isSundayFullTest, firebaseInitialized,
                           results, freeResults>>

NextRank ==
    \/ Tick
    \/ Respond
    \/ SubmitCheckRanked
    \/ SubmitCreate

SpecRank == Init /\ [][NextRank]_vars

\* ------------------------------------------------------------- connectDB
\* Every handler begins with await connectDB().  The handlers above are
\* taken from the point where that call has returned; the calls themselves
\* are followed here, several at a time.  A promise is named by the number
\* of the mongoose.connect attempt that made it; cached.promise holds such
\* a number.
MONGO_URI == "mongodb://db"

\* variant: no catch handler on the promise (connectDB of src/index.js)
catchHandlerAbsent(c) == c

\* .catch(err => { cached.promise = null; throw err; })
catchHandler(c) == [c EXCEPT !.promise = NoPromise]

\* the attempts whose promise is not settled
InFlightAttempts == {n \in DOMAIN promises : promises[n] = "pending"}

\* the calls suspended at await cached.promise of attempt n
Waiters(n) == {c \in DOMAIN calls : calls[c].pc = "await" /\ calls[c].on = n}

\* connectDB() up to its first await
CallConnectDB ==
    \E c \in DOMAIN calls :
        /\ calls[c].pc = "idle"
        /\ IF cached.conn # NULL
           THEN /\ calls' = [calls EXCEPT ![c] =
                                [pc |-> "returned", on |-> NoPromise, saw |-> "cached"]]
                /\ UNCHANGED <<cached, promises>>
           ELSE IF cached.promise = NoPromise
           THEN IF MONGO_URI = NULL
                THEN /\ calls' = [calls EXCEPT ![c] =
                                    [pc |-> "threw", on |-> NoPromise, saw |-> "none"]]
                     /\ UNCHANGED <<cached, promises>>
                ELSE /\ Len(promises) < MaxAttempts
                     /\ promises' = Append(promises, "pending")
                     /\ cached' = [cached EXCEPT !.promise = Len(promises) + 1]
                     /\ calls' = [calls EXCEPT ![c] =
                                    [pc |-> "await", on |-> Len(promises) + 1,
                                     saw |-> "none"]]
           ELSE IF promises[cached.promise] = "pending"
           THEN /\ calls' = [calls EXCEPT ![c] =
                                [pc |-> "await", on |-> cached.promise, saw |-> "none"]]
                /\ UNCHANGED <<cached, promises>>
           ELSE IF promises[cached.promise] = "resolved"
           THEN /\ calls' = [calls EXCEPT ![c] =
                                [pc |-> "createIndex", on |-> cached.promise,
                                 saw |-> "resolved"]]
                /\ cached' = [cached EXCEPT !.conn = "mongoose"]
                /\ UNCHANGED promises
           ELSE /\ calls' = [calls EXCEPT ![c] =
                                [pc |-> "threw", on |-> cached.promise,
                                 saw |-> "rejected"]]
                /\ UNCHANGED <<cached, promises>>
        /\ UNCHANGED <<clock, isSundayFullTest, firebaseInitialized, results,
                       freeResults, pending, resp>>

\* mongoose.connect succeeds: the promise resolves and every call awaiting
\* it goes on in the same turn (cached.conn = await cached.promise)
ConnectResolves ==
    \E n \in InFlightAttempts :
        /\ promises' = [promises EXCEPT ![n] = "resolved"]
        /\ cached' = IF Waiters(n) # {} THEN [cached EXCEPT !.conn = "mongoose"]
                     ELSE cached
        /\ calls' = [c \in DOMAIN calls |->
                        IF c \in Waiters(n)
                        THEN [pc |-> "createIndex", on |-> n, saw |-> "resolved"]
                        ELSE calls[c]]
        /\ UNCHANGED <<clock, isSundayFullTest, firebaseInitialized, results,
                       freeResults, pending, resp>>

\* mongoose.connect fails: the catch handler runs, then every call awaiting
\* the promise throws
ConnectRejects ==
    \E n \in InFlightAttempts :
        /\ promises' = [promises EXCEPT ![n] = "rejected"]
        /\ cached' = catchHandler(cached)
        /\ calls' = [c \in DOMAIN calls |->
                        IF c \in Waiters(n)
                        THEN [pc |-> "threw", on |-> n, saw |-> "rejected"]
                        ELSE calls[c]]
        /\ UNCHANGED <<clock, isSundayFullTest, firebaseInitialized, results,
                       freeResults, pending, resp>>

\* await createIndex(...) ends: connectDB returns cached.conn, or throws
CreateIndexSettles ==
    \E c \in DOMAIN calls, outcome \in {"returned", "threw"} :
        /\ calls[c].pc = "createIndex"
        /\ calls' = [calls EXCEPT ![c].pc = outcome]
        /\ UNCHANGED <<cached, promises, clock, isSundayFullTest,
                       firebaseInitialized, results, freeResults, pending, resp>>

\* the request that made the call ends; a later request calls again
CallEnds ==
    \E c \in DOMAIN calls :
        /\ calls[c].pc \in {"returned", "threw"}
        /\ calls' = [calls EXCEPT ![c] = NotCalled]
        /\ UNCHANGED <<cached, promises, clock, isSundayFullTest,
                       firebaseInitialized, results, freeResults, pending, resp>>

NextConnect ==
    \/ CallConnectDB
    \/ ConnectResolves
    \/ ConnectRejects
    \/ CreateIndexSettles
    \/ CallEnds

SpecConnect == Init /\ [][NextConnect]_vars

\* ================================================================== claims
\* the routes registered with userAuth and the routes registered without
AuthenticatedRoutes ==
    {"today-test", "submission-status", "overall-rank", "submit", "my-rank",
     "leaderboard", "review-test", "analytics-summary", "analytics-attempts"}
UnauthenticatedRoutes ==
    {"root", "leaderboard-global", "free-tests", "free-test",
     "free-today-test", "free-submit", "free-leaderboard"}

\* the stored submissions of a user for a test
StoredOf(uid, testId) ==
    {i \in 1..Len(results) :
        results[i].userId = uid /\ results[i].testId = testId}

\* C1: at most one on-time Result per (userId, testId, phase), for every
\* interleaving of the submit handlers.
C1_AtMostOneOnTime ==
    \A uid \in Users, testId \in AllTests, phase \in Phases :
        Cardinality(OnTimeOf(results, uid, testId, {phase})) <= 1

\* C2: a submit for a (user, test, phase) that has an on-time Result leaves
\* the ledger as it is and stores no grading; unless its body is not a list
\* (400) it is answered 403 with alreadySubmitted = true and no score.
C2_ResubmitRejected ==
    [][(/\ resp'.route = "submit"
        /\ resp'.uid \in Users
        /\ resp'.testId \in AllTests
        /\ resp'.phase \in Phases
        /\ OnTimeOf(results, resp'.uid, resp'.testId, {resp'.phase}) # {})
       => (/\ results' = results
           /\ "score" \notin DOMAIN resp'.body
           /\ resp'.code \in {400, 403}
           /\ resp'.code = 403 =>
                /\ "alreadySubmitted" \in DOMAIN resp'.body
                /\ resp'.body.alreadySubmitted
           /\ resp'.code = 400 =>
                resp'.body.message = "answers must be an array of objects")]_vars

C2_Witness ==
    /\ resp.route = "submit"
    /\ resp.code = 403
    /\ resp.body.alreadySubmitted
    /\ OnTimeOf(results, resp.uid, resp.testId, {resp.phase}) # {}

\* the rank number the ranking query gives the on-time result led[i]
RankNumber(led, i) ==
    countBetter(led, led[i].testId, led[i].phase, led[i].score,
                led[i].submittedAt) + 1

\* C3: no two distinct on-time submissions of one (test, phase) cohort get
\* the same rank number.
C3_RanksDistinct ==
    \A i, j \in OnTimeAll(results) :
        (/\ i # j
         /\ results[i].testId = results[j].testId
         /\ results[i].phase = results[j].phase)
        => RankNumber(results, i) # RankNumber(results, j)

\* 1 + the number of on-time results of S's test and phase that have a
\* higher score, or S's score and an earlier submittedAt
C4_Expected(led, S) ==
    1 + Cardinality({k \in 1..Len(led) :
            /\ led[k].testId = S.testId
            /\ led[k].phase = S.phase
            /\ ~led[k].isLate
            /\ \/ led[k].score > S.score
               \/ (led[k].score = S.score /\ led[k].submittedAt < S.submittedAt)})

\* the cohort of the scenario: 10, 8, 8 and 5 marks at t1 < t2 < t3 < t4
C4_ScenarioLedger ==
    LET Doc(u, marks, t) ==
            [userId |-> u, testId |-> "t1", phase |-> "GS", score |-> 3 * marks,
             submittedAt |-> t, isLate |-> FALSE]
    IN  <<Doc("a", 10, 1), Doc("b", 8, 2), Doc("c", 8, 3), Doc("d", 5, 4)>>

\* the per-phase entries of a my-rank or submission-status response are the
\* expected ranks of the caller's on-time results
C4_PhaseEntries(entries) ==
    \A ph \in DOMAIN entries :
        /\ OnTimeOf(results, resp.uid, resp.testId, {ph}) # {}
        /\ \A i \in OnTimeOf(results, resp.uid, resp.testId, {ph}) :
              entries[ph].rank = C4_Expected(results, results[i])

\* C4: every per-phase rank that submit, my-rank, submission-status or
\* review-test returns for an on-time submission S is 1 + the number of
\* on-time results of the same test and phase, in the ledger at that moment,
\* with a higher score or an equal score and an earlier submittedAt; the
\* cohort 10, 8, 8, 5 submitted in that order gets the ranks 1, 2, 3, 4.
C4_RankAsSpecified ==
    /\ (resp.route = "submit" /\ resp.code = 200 /\ "rank" \in DOMAIN resp.body)
       => LET S == results[Len(results)]
          IN  /\ S.userId = resp.uid /\ S.phase = resp.phase /\ ~S.isLate
              /\ resp.body.rank = C4_Expected(results, S)
    /\ (resp.route = "my-rank" /\ resp.code = 200 /\ "phases" \in DOMAIN resp.body)
       => C4_PhaseEntries(resp.body.phases)
    /\ (resp.route = "submission-status" /\ resp.code = 200
          /\ "rankData" \in DOMAIN resp.body)
       => C4_PhaseEntries(resp.body.rankData)
    /\ (resp.route = "review-test" /\ resp.code = 200
          /\ "rankInfo" \in DOMAIN resp.body)
       => \E i \in StoredOf(resp.uid, resp.testId) :
             /\ ~results[i].isLate
             /\ results[i].phase = resp.body.rankInfo.phase
             /\ results[i].submittedAt = resp.body.submittedAt
             /\ resp.body.rankInfo.rank = C4_Expected(results, results[i])
    /\ [i \in 1..4 |-> RankNumber(C4_ScenarioLedger, i)] = <<1, 2, 3, 4>>

\* a my-rank answer that puts the caller second behind an earlier equal score
C4_Witness ==
    /\ resp.route = "my-rank"
    /\ resp.code = 200
    /\ "phases" \in DOMAIN resp.body
    /\ \E ph \in DOMAIN resp.body.phases :
          /\ resp.body.phases[ph].rank = 2
          /\ \E i, j \in Cohort(results, resp.testId, ph) :
                /\ results[i].userId = resp.uid
                /\ results[j].userId # resp.uid
                /\ results[j].score = results[i].score
                /\ results[j].submittedAt < results[i].submittedAt

\* everything the ranking routes compute from a ledger
C5_Rankings(led) ==
    [ranks |-> [i \in OnTimeAll(led) |-> RankNumber(led, i)],
     totals |-> [c \in AllTests \X Phases |-> countRanked(led, c[1], c[2])],
     boards |-> [t \in AllTests |-> leaderboardBodies(led, t)],
     combined |-> [c \in AllTests \X Users |->
                     countBetterCombined(led, c[1], CombinedTotal(led, c[1], c[2]))],
     participants |-> [t \in AllTests |-> Cardinality(CombinedUsers(led, t))],
     global |-> [l \in LimitQueries |-> globalLeaderboardBodies(led, l)],
     overall |-> [u \in Users |->
                    Cardinality({v \in OnTimeUsers(led) :
                        totalMarksOf(led, v) > totalMarksOf(led, u)})]]

C5_NoRankForLate ==
    /\ (resp.route = "submit" /\ resp.code = 200 /\ resp.body.isLate)
       => /\ {"rank", "totalRankedParticipants", "combined"}
                \cap DOMAIN resp.body = {}
          /\ ~resp.body.ranked
          /\ results[Len(results)].isLate
    /\ (resp.route = "review-test" /\ resp.code = 200 /\ resp.body.isLate)
       => "rankInfo" \notin DOMAIN resp.body
    /\ (resp.route \in {"my-rank", "submission-status"} /\ resp.code = 200)
       => \A key \in {"phases", "rankData"} \cap DOMAIN resp.body :
             \A ph \in DOMAIN resp.body[key] :
                \E i \in OnTimeOf(results, resp.uid, resp.testId, {ph}) :
                   resp.body[key][ph].score = Round2(results[i].score)

\* C5: a late submission is graded and stored, and the step that stores it
\* changes no on-time rank, no cohort size, no per-test leaderboard and not
\* the global leaderboard; no response about a late submission has a rank.
C5_LateOutsideCohort ==
    /\ [][(/\ Len(results') = Len(results) + 1
           /\ results'[Len(results')].isLate)
          => (/\ SubSeq(results', 1, Len(results)) = results
              /\ C5_Rankings(results') = C5_Rankings(results))]_vars
    /\ [] C5_NoRankForLate

\* a late result has just been stored next to an on-time one
C5_Witness ==
    /\ resp.route = "submit"
    /\ resp.code = 200
    /\ resp.body.isLate
    /\ results[Len(results)].isLate
    /\ OnTimeAll(results) # {}

\* C6: a stored Result is late exactly when the submit call was made after
\* the endTime of its test (submittedAt is the time of the call).
C6_LateIffAfterEnd ==
    \A i \in 1..Len(results) :
        results[i].isLate <=> (results[i].submittedAt > Test(results[i].testId).endTime)

\* one result stored at endTime, on time, and one at the next instant, late
C6_Witness ==
    \E i, j \in 1..Len(results) :
        /\ results[i].submittedAt = Test(results[i].testId).endTime
        /\ ~results[i].isLate
        /\ results[j].submittedAt = Test(results[j].testId).endTime + 1
        /\ results[j].isLate

\* C7: today-test answers not_started exactly before startTime, active
\* exactly from startTime to endTime (both included), archived exactly after
\* endTime.
C7_WindowStatus ==
    (resp.route = "today-test" /\ resp.code = 200)
    => LET test == Test(resp.testId)
           status == resp.body.status
       IN  /\ status \in {"not_started", "active", "archived"}
           /\ (status = "not_started") <=> (clock < test.startTime)
           /\ (status = "active") <=>
                (test.startTime <= clock /\ clock <= test.endTime)
           /\ (status = "archived") <=> (clock > test.endTime)

\* the test is reported active at the last instant of its window
C7_Witness ==
    /\ resp.route = "today-test"
    /\ resp.code = 200
    /\ resp.body.status = "active"
    /\ clock = Test(resp.testId).endTime

\* the question items a response carries
RespQuestions(r) ==
    IF "questions" \in DOMAIN r.body THEN Range(r.body.questions)
    ELSE IF r.route = "today-test" /\ "phases" \in DOMAIN r.body
    THEN Range(r.body.phases.GS.questions) \cup Range(r.body.phases.CSAT.questions)
    ELSE {}

WindowActive(testId) ==
    Test(testId).startTime <= clock /\ clock <= Test(testId).endTime

\* C8: today-test carries questions exactly while the paid test is active;
\* a response with questions of a paid test goes to an authenticated user,
\* and either it is today-test during the window or the user has a stored
\* submission for the test.
C8_QuestionsGated ==
    /\ (resp.route = "today-test" /\ resp.code = 200)
       => (RespQuestions(resp) # {} <=> WindowActive(resp.testId))
    /\ (/\ RespQuestions(resp) # {}
        /\ resp.testId \in AllTests
        /\ Test(resp.testId).testType = "paid")
       => /\ resp.route \in AuthenticatedRoutes
          /\ resp.uid \in Users
          /\ \/ (resp.route = "today-test" /\ WindowActive(resp.testId))
             \/ StoredOf(resp.uid, resp.testId) # {}
    /\ (/\ resp.route \in AuthenticatedRoutes
        /\ resp.uid \in Users
        /\ resp.testId \in AllTests
        /\ StoredOf(resp.uid, resp.testId) = {}
        /\ ~WindowActive(resp.testId))
       => RespQuestions(resp) = {}

\* after the window, review-test turns away a user who has stored nothing
\* while another user has a submission
C8_Witness ==
    /\ resp.route = "review-test"
    /\ resp.code = 404
    /\ resp.uid \in Users
    /\ clock > Test("t1").endTime
    /\ resp.testId = "t1"
    /\ StoredOf(resp.uid, "t1") = {}
    /\ results # <<>>

RespHasCorrectOption(r) ==
    \E q \in RespQuestions(r) :
        {"correctOption", "correctAnswer"} \cap DOMAIN q # {}

\* C9: a response with the correct option of a question is a review-test
\* response to an authenticated user who has a stored submission for that
\* test; the test-fetch routes and the unauthenticated routes never carry it.
C9_CorrectOptionOnlyToSubmitters ==
    /\ RespHasCorrectOption(resp)
       => /\ resp.route = "review-test"
          /\ resp.uid \in Users
          /\ StoredOf(resp.uid, resp.testId) # {}
    /\ (resp.route \in {"today-test", "free-test", "free-today-test"}
                          \cup UnauthenticatedRoutes)
       => ~RespHasCorrectOption(resp)

\* review-test shows the correct options to a user who has submitted
C9_Witness ==
    /\ resp.route = "review-test"
    /\ resp.code = 200
    /\ RespHasCorrectOption(resp)
    /\ StoredOf(resp.uid, resp.testId) # {}

\* before 11:30 IST (time of day, in half hours)
C10_GateClosed == ((clock + IST_OFFSET_MS) % 48) < 23

\* C10: while the gate is closed, what submit, my-rank, submission-status and
\* review-test answer has no rank number and no cohort size, only the reveal
\* time; the submit response has score, correct, incorrect and unattempted.
C10_RankWithheld ==
    (/\ C10_GateClosed
     /\ resp.route \in {"submit", "my-rank", "submission-status", "review-test"}
     /\ resp.code = 200)
    => /\ {"rank", "totalRankedParticipants", "totalParticipants", "combined",
           "phases", "rankData", "combinedRank", "rankInfo"}
             \cap DOMAIN resp.body = {}
       /\ "rankRevealTime" \in DOMAIN resp.body
       /\ ~resp.body.rankRevealNow
       /\ resp.route = "submit"
            => {"score", "correct", "incorrect", "unattempted"}
                 \subseteq DOMAIN resp.body

\* an on-time submit answered while the gate is closed
C10_Witness ==
    /\ C10_GateClosed
    /\ resp.route = "submit"
    /\ resp.code = 200
    /\ ~resp.body.isLate
    /\ "score" \in DOMAIN resp.body

\* the keys under which the leaderboard route returns cohort data
LeaderboardKeys ==
    {"leaderboard", "totalRankedParticipants", "gs", "csat", "combined"}

\* C11: while the gate is closed, the answer of GET /user/leaderboard/:testId
\* for a test that has on-time submissions has no score-ordered list of users, no rank positions and no participant
\* totals of the cohort.
C11_LeaderboardGated ==
    (/\ C10_GateClosed
     /\ resp.route = "leaderboard"
     /\ resp.code = 200
     /\ CombinedMatch(results, resp.testId) # {})
    => LeaderboardKeys \cap DOMAIN resp.body = {}

\* C12: on a two-phase test, every user listed in the combined leaderboard
\* and every user counted in a combined totalParticipants has an on-time
\* Result in both GS and CSAT.
C12_CombinedBothPhases ==
    LET Both(testId) ==
            {u \in Users : /\ OnTimeOf(results, u, testId, {"GS"}) # {}
                           /\ OnTimeOf(results, u, testId, {"CSAT"}) # {}}
    IN  /\ (/\ resp.route = "leaderboard"
            /\ resp.code = 200
            /\ "combined" \in DOMAIN resp.body)
           => /\ \A k \in DOMAIN resp.body.combined.leaderboard :
                    resp.body.combined.leaderboard[k].userId \in Both(resp.testId)
              /\ resp.body.combined.totalUniqueParticipants
                    = Cardinality(Both(resp.testId))
        /\ (/\ resp.route \in {"my-rank", "submit"}
            /\ resp.code = 200
            /\ "combined" \in DOMAIN resp.body)
           => resp.body.combined.totalParticipants
                    = Cardinality(Both(resp.testId))

\* C13: the counts of every stored paid submission add up: correct +
\* incorrect + unattempted = totalQuestions and attempted = correct +
\* incorrect (so an empty answers list gives unattempted = totalQuestions).
C13_CountsAddUp ==
    \A i \in 1..Len(results) :
        /\ results[i].correct + results[i].incorrect + results[i].unattempted
              = results[i].totalQuestions
        /\ results[i].attempted = results[i].correct + results[i].incorrect

\* C14: the stored score of every paid submission is 2 * correct - (2/3) *
\* incorrect of its own counts (three times the score is 6 * correct - 2 *
\* incorrect; the model stores three times the score); (0,0) gives 0, (5,0)
\* gives 10, (0,3) gives -2, (10,5) gives 50/3; the submit response carries
\* the stored score rounded to two decimals.
C14_ScoreFormula ==
    /\ \A i \in 1..Len(results) :
          results[i].score = (6 * results[i].correct) - (2 * results[i].incorrect)
    /\ calculateNetScore(0, 0) = 3 * 0
    /\ calculateNetScore(5, 0) = 3 * 10
    /\ calculateNetScore(0, 3) = 3 * (-2)
    /\ calculateNetScore(10, 5) = 50
    /\ (resp.route = "submit" /\ resp.code = 200)
       => LET S == results[Len(results)]
          IN  \* hundredths: |100 * score - body.score| <= 1/2
              /\ 2 * ((100 * S.score) - (3 * resp.body.score)) <= 3
              /\ 2 * ((3 * resp.body.score) - (100 * S.score)) <= 3

\* a stored score that is not a whole number of hundredths (4/3 of a mark),
\* answered as 1.33
C14_Witness ==
    /\ resp.route = "submit"
    /\ resp.code = 200
    /\ results[Len(results)].correct = 1
    /\ results[Len(results)].incorrect = 1
    /\ results[Len(results)].score = 4
    /\ resp.body.score = 133

\* the entries of a stored answers list whose questionId is the id of a
\* question of the graded phase
C20_KnownEntries(doc) ==
    LET ids == {q._id : q \in Range(QuestionsOf(doc.testId, doc.phase))}
    IN  SelectSeq(doc.answers, LAMBDA a : a.questionId \in ids)

C20_CorrectOptionOf(questionId) ==
    (CHOOSE q \in Range(Question) : q._id = questionId).correctOption

\* C20: the counts and the score of every stored paid submission are those
\* of its answers list without the entries whose questionId matches no
\* question of the graded phase: such entries add to no counter.
C20_UnknownIdsIgnored ==
    \A i \in 1..Len(results) :
        LET doc == results[i]
            known == C20_KnownEntries(doc)
            Count(Holds(_)) == Cardinality({k \in 1..Len(known) : Holds(known[k])})
            IsCorrect(a) == /\ a.selectedOption # NULL
                            /\ a.selectedOption = C20_CorrectOptionOf(a.questionId)
            IsIncorrect(a) == /\ a.selectedOption # NULL
                              /\ a.selectedOption # C20_CorrectOptionOf(a.questionId)
            IsUnattempted(a) == a.selectedOption = NULL
        IN  /\ doc.correct = Count(IsCorrect)
            /\ doc.incorrect = Count(IsIncorrect)
            /\ doc.unattempted = Count(IsUnattempted)
            /\ doc.attempted = Count(IsCorrect) + Count(IsIncorrect)
            /\ doc.score = (6 * Count(IsCorrect)) - (2 * Count(IsIncorrect))

\* a stored submission whose answers list had an entry for a question that
\* does not exist, next to a graded one
C20_Witness ==
    \E i \in 1..Len(results) :
        /\ Len(C20_KnownEntries(results[i])) < Len(results[i].answers)
        /\ results[i].attempted > 0

\* C15: a submit call that ends in a service error (500) has stored no
\* Result: the step that answers 500 leaves the ledger as it was.
C15_AllOrNothing ==
    [][(resp'.route = "submit" /\ resp'.code = 500) => results' = results]_vars

\* C16: at most one late Result per (userId, testId, phase).
C16_AtMostOneLate ==
    \A uid \in Users, testId \in AllTests, phase \in Phases :
        Cardinality({i \in 1..Len(results) :
            /\ results[i].userId = uid
            /\ results[i].testId = testId
            /\ results[i].phase = phase
            /\ results[i].isLate}) <= 1

\* C17: the ledger is append-only and its records are immutable: every step
\* of every route leaves each stored Result where it is and as it is.
C17_LedgerAppendOnly ==
    [][/\ Len(results') >= Len(results)
       /\ SubSeq(results', 1, Len(results)) = results]_vars

\* a second Result of one user, test and phase stored after the first, with
\* a different score: the first one is still there
C17_Witness ==
    /\ Len(results) = 2
    /\ results[1].userId = results[2].userId
    /\ results[1].testId = results[2].testId
    /\ results[1].phase = results[2].phase
    /\ results[1].score # results[2].score
    /\ results[1].isLate
    /\ results[2].isLate
    /\ resp.route = "submit"
    /\ resp.code = 200

\* the answers with which the submit handler rejects a request
C18_Rejections == {400, 401, 403, 404, 503}

\* C18: a submit request that is rejected leaves the ledger unchanged, and
\* a submit request that stores a Result stores it under the uid that the
\* verification of its own token yielded.
C18_RejectedStoresNothing ==
    [][/\ (resp'.route = "submit" /\ resp'.code \in C18_Rejections)
          => results' = results
       /\ (results' # results)
          => /\ resp'.route = "submit"
             /\ resp'.code = 200
             /\ resp'.uid \in Users
             /\ Len(results') = Len(results) + 1
             /\ results'[Len(results')].userId = resp'.uid]_vars

\* a request with a forged token has been turned away from a ledger that
\* holds a submission
C18_Witness ==
    /\ resp.route = "submit"
    /\ resp.code = 401
    /\ resp.uid = NoUser
    /\ results # <<>>
    /\ \A i \in 1..Len(results) : results[i].userId \in Users

\* the on-time Results of a user, over all tests
C19_OnTimeOfUser(uid) ==
    {i \in 1..Len(results) : results[i].userId = uid /\ ~results[i].isLate}

\* three times the summed net score of a user's on-time Results
C19_SumScore(uid) ==
    SumOver([i \in 1..Len(results) |-> results[i].score], C19_OnTimeOfUser(uid))

C19_SumCorrect(uid) ==
    SumOver([i \in 1..Len(results) |-> results[i].correct], C19_OnTimeOfUser(uid))

\* C19: GET /leaderboard/global answers with at most limit entries (50 when
\* no limit is asked for), as many as there are users up to that limit, one
\* entry per distinct user with an on-time Result; an entry's totalMarks is
\* the sum of the net scores of the user's on-time Results over all tests
\* (in the response rounded to two decimals, as every score is) and its
\* totalCorrect the sum of their correct counts; the entries are in
\* non-increasing order of totalMarks, no user left out has more than a
\* user listed, and entry i has rank i.
C19_GlobalLeaderboard ==
    (resp.route = "leaderboard-global" /\ resp.code = 200)
    => LET lb == resp.body.leaderboard
           limit == IF resp.limit = 0 THEN 50 ELSE resp.limit
           users == {u \in Users : C19_OnTimeOfUser(u) # {}}
           listed == {lb[k].userId : k \in DOMAIN lb}
       IN  /\ Len(lb) <= limit
           /\ Len(lb) = IF Cardinality(users) < limit
                        THEN Cardinality(users) ELSE limit
           /\ listed \subseteq users
           /\ \A j, k \in DOMAIN lb : j # k => lb[j].userId # lb[k].userId
           /\ \A k \in DOMAIN lb :
                 /\ 2 * ((100 * C19_SumScore(lb[k].userId))
                           - (3 * lb[k].totalMarks)) <= 3
                 /\ 2 * ((3 * lb[k].totalMarks)
                           - (100 * C19_SumScore(lb[k].userId))) <= 3
                 /\ lb[k].totalCorrect = C19_SumCorrect(lb[k].userId)
                 /\ lb[k].rank = k
                 /\ \A u \in users \ listed :
                       C19_SumScore(u) <= C19_SumScore(lb[k].userId)
           /\ \A j, k \in DOMAIN lb :
                 j < k => /\ lb[j].totalMarks >= lb[k].totalMarks
                          /\ C19_SumScore(lb[j].userId) >= C19_SumScore(lb[k].userId)

\* a page of one entry cut from two users with different totals
C19_Witness ==
    /\ resp.route = "leaderboard-global"
    /\ resp.code = 200
    /\ resp.limit = 1
    /\ Len(resp.body.leaderboard) = 1
    /\ \E u \in Users :
          /\ u # resp.body.leaderboard[1].userId
          /\ C19_OnTimeOfUser(u) # {}
          /\ C19_SumScore(u) < C19_SumScore(resp.body.leaderboard[1].userId)

\* the users who are given a combined rank: an on-time Result in both phases
C21_RankedUsers(testId) ==
    {u \in Users : /\ OnTimeOf(results, u, testId, {"GS"}) # {}
                   /\ OnTimeOf(results, u, testId, {"CSAT"}) # {}}

\* C21: combined ranking is a strict order: no two distinct users of a test
\* get the same combined rank number, and the ledger determines the
\* positions of the combined leaderboard (one possible list).
C21_CombinedStrict ==
    \A testId \in AllTests :
        Test(testId).isSundayFullTest
        => /\ \A u, v \in C21_RankedUsers(testId) :
                 u # v => countBetterCombined(results, testId,
                              CombinedTotal(results, testId, u))
                          # countBetterCombined(results, testId,
                              CombinedTotal(results, testId, v))
           /\ Cardinality(combinedLeaderboards(results, testId)) = 1

\* C22 (src/index.js): once a submit of a user for a test has been graded
\* and saved (the attempt's submittedAt is later than its startedAt), a
\* further submit-test by that user for that test changes neither the
\* stored score nor the stored submittedAt.
C22_NoRegrade ==
    [][(/\ resp'.route = "attempt-submit"
        /\ resp'.uid \in Users
        /\ \E i \in attemptOf(resp'.uid, resp'.testId) :
              results[i].submittedAt > results[i].startedAt)
       => results' = results]_vars

\* a token that verifies as uid
C23_TokenOf(uid) == CHOOSE token \in Tokens : verifyIdToken(token) = uid

\* the ids of the questions whose correct option a response carries
C23_Revealed(r) ==
    {q.questionId : q \in {x \in RespQuestions(r) : "correctAnswer" \in DOMAIN x}}

\* C23: when review-test has given a user the correct options of questions
\* of a paid test, no submit of that user graded on any of those questions
\* is accepted as an on-time submission: in the state in which the review
\* response is sent, every such submit request would be rejected or late.
C23_NoSubmitAfterReview ==
    (/\ resp.route = "review-test"
     /\ resp.code = 200
     /\ C23_Revealed(resp) # {})
    => \A phase \in Phases, answers \in AnswerInputs :
          LET chk == submitCheck(C23_TokenOf(resp.uid), resp.testId, phase, answers)
              graded == {q._id : q \in Range(QuestionsOf(resp.testId, phase))}
          IN  (chk.ok /\ graded \cap C23_Revealed(resp) # {}) => chk.req.isLate

\* C24: every Result stored with isLate = false was submitted inside the
\* window of its test, and a not_started answer of today-test (which says
\* hasSubmitted = false) is given only to a user without an on-time Result.
C24_OnTimeInsideWindow ==
    /\ \A i \in 1..Len(results) :
          ~results[i].isLate
          => /\ Test(results[i].testId).startTime <= results[i].submittedAt
             /\ results[i].submittedAt <= Test(results[i].testId).endTime
    /\ (/\ resp.route = "today-test"
        /\ resp.code = 200
        /\ resp.body.status = "not_started")
       => /\ ~resp.body.hasSubmitted
          /\ OnTimeOf(results, resp.uid, resp.testId, Phases) = {}

\* C25: for every stored paid submission correct + incorrect + unattempted
\* is at most totalQuestions and the score at most 2 * totalQuestions (the
\* model stores three times the score).
C25_CountsBounded ==
    \A i \in 1..Len(results) :
        /\ results[i].correct + results[i].incorrect + results[i].unattempted
              <= results[i].totalQuestions
        /\ results[i].score <= 3 * (2 * results[i].totalQuestions)

\* GET /user/my-rank/:testId with this token answers with rank data
C26_RankReturned(token, testId) ==
    LET r == myRank(token, testId)
    IN  r.code = 200 /\ "phases" \in DOMAIN r.body

\* C26: once GET /user/my-rank/:testId returns a rank to a user for a test,
\* it returns a rank to that user for that test at every later time.
C26_RevealMonotone ==
    [][\A token \in Tokens, testId \in TestIds :
          C26_RankReturned(token, testId) => C26_RankReturned(token, testId)']_vars

\* the time of day a reveal-time text names, in half hours after midnight
C27_TimeOfDay(text) ==
    IF text = "5:00 PM IST" THEN (12 + 5) * 2 ELSE 0

\* C27: every response that tells whether the ranks are revealed says no
\* exactly while the IST time of day is before the time returned as
\* rankRevealTime, and yes from that time on.
C27_GateAgreesWithAdvertisedTime ==
    "rankRevealNow" \in DOMAIN resp.body
    => (resp.body.rankRevealNow
        <=> (nowIST % 48) >= C27_TimeOfDay(rankRevealTimeIST))

\* a rank and the size of the cohort it is a rank in
C28_Within(rank, total) == 1 <= rank /\ rank <= total

\* C28: in every response that has a rank and a participant total (the rank
\* in a phase, the combined rank, the overall rank, the rank in a free
\* test), the rank is at least 1 and at most the total.
C28_RankWithinTotal ==
    resp.code = 200 =>
        /\ (resp.route = "submit" /\ "rank" \in DOMAIN resp.body)
             => C28_Within(resp.body.rank, resp.body.totalRankedParticipants)
        /\ (resp.route \in {"submit", "my-rank"} /\ "combined" \in DOMAIN resp.body)
             => C28_Within(resp.body.combined.rank,
                           resp.body.combined.totalParticipants)
        /\ (resp.route = "my-rank" /\ "phases" \in DOMAIN resp.body)
             => \A ph \in DOMAIN resp.body.phases :
                    C28_Within(resp.body.phases[ph].rank,
                               resp.body.phases[ph].totalParticipants)
        /\ (resp.route = "overall-rank" /\ "rank" \in DOMAIN resp.body)
             => C28_Within(resp.body.rank, resp.body.totalParticipants)
        /\ (resp.route = "free-submit" /\ "yourRank" \in DOMAIN resp.body)
             => C28_Within(resp.body.yourRank, resp.body.total)

\* C29: in the answer of GET /user/leaderboard/:testId for a single-phase
\* test, the entry at position k is an on-time GS submission to which the
\* rank query gives rank k, and totalRankedParticipants is the size of
\* the on-time GS cohort.
C29_LeaderboardAgreesWithRank ==
    (/\ resp.route = "leaderboard"
     /\ resp.code = 200
     /\ "leaderboard" \in DOMAIN resp.body)
    => LET cohort == Cohort(results, resp.testId, "GS")
           entries == resp.body.leaderboard
       IN  /\ resp.body.totalRankedParticipants = Cardinality(cohort)
           /\ \A k \in DOMAIN entries :
                \E i \in cohort :
                    /\ results[i].userId = entries[k].userId
                    /\ Round2(results[i].score) = entries[k].score
                    /\ results[i].submittedAt = entries[k].submittedAt
                    /\ RankNumber(results, i) = k

C30_Inv ==
    \* at most one attempt in flight
    /\ Cardinality(InFlightAttempts) <= 1
    \* a waiting call waits for the attempt in flight, the one cached
    /\ \A c \in DOMAIN calls :
          calls[c].pc = "await"
          => /\ calls[c].on = cached.promise
             /\ calls[c].on \in InFlightAttempts
    \* what a call saw of the attempt it awaited is how the attempt ended
    /\ \A c \in DOMAIN calls :
          calls[c].saw \in {"resolved", "rejected"}
          => promises[calls[c].on] = calls[c].saw
    \* the promise of a failed attempt is not kept
    /\ cached.promise # NoPromise => promises[cached.promise] # "rejected"
    \* a cached connection comes from an attempt that succeeded, and no
    \* attempt is in flight beside it
    /\ cached.conn # NULL
       => /\ InFlightAttempts = {}
          /\ \E n \in DOMAIN promises : promises[n] = "resolved"

C30_Step ==
    \* once a connection is cached no attempt is started
    /\ cached.conn # NULL => promises' = promises
    \* a call made after a failed attempt, with no connection cached,
    \* starts a new attempt
    /\ (/\ cached.conn = NULL
        /\ promises # <<>>
        /\ \A n \in DOMAIN promises : promises[n] = "rejected"
        /\ \E c \in DOMAIN calls : calls[c].pc = "idle" /\ calls'[c].pc # "idle")
       => /\ Len(promises') = Len(promises) + 1
          /\ promises'[Len(promises')] = "pending"

\* C30: with connectDB calls of src/api/index.js interleaved in every way,
\* at most one mongoose.connect attempt is in flight, every call waiting on
\* it sees how it ended, the promise of a failed attempt is cleared and a
\* later call starts a new attempt, and once a connection is cached no
\* call connects again.
C30_ConnectOnce == []C30_Inv /\ [][C30_Step]_vars

\* a first attempt failed, a second attempt succeeded under two waiting
\* calls, and a later call returned the cached connection
C30_Witness ==
    /\ Len(promises) = 2
    /\ promises[1] = "rejected"
    /\ promises[2] = "resolved"
    /\ cached.conn # NULL
    /\ \E c, d, e \in DOMAIN calls :
          /\ c # d
          /\ calls[c].on = 2 /\ calls[c].saw = "resolved"
          /\ calls[d].on = 2 /\ calls[d].saw = "resolved"
          /\ calls[e].saw = "cached"

====
